---- MODULE Spec2Model ----
(***************************************************************************)
(* Model of the WebSocket hub (backend/websocket/hub.js) and its message   *)
(* kind table (backend/websocket/messageTypes.js): the registry of         *)
(* connected game servers, the per-connection context, the 'message' and   *)
(* 'close' handlers and the relay function used by the login service.      *)
(***************************************************************************)
EXTENDS Integers, Sequences, FiniteSets, TLC

(* ---------------------------------------------------------------------- *)
(* Bounds                                                                  *)
(* ---------------------------------------------------------------------- *)

\* Number of WebSocket connections the hub accepts in one behaviour.
MaxSessions == 2

Sessions == 1..MaxSessions

\* "No connection": the result of Map.get for an absent key.
NoSession == 0

(* ---------------------------------------------------------------------- *)
(* JavaScript values that appear in frames                                 *)
(* ---------------------------------------------------------------------- *)

\* A property that is absent from an object (reads as undefined).
Absent == "<absent>"

\* Initial value of context.serverName.
DefaultServerName == "UnknownServer"

\* Names world servers register under.
ZoneNames == {"Zone1"}

\* Keys the registry can hold: a sent name, or the context's default name.
ServerNames == ZoneNames \cup {DefaultServerName}

\* Values of data.name / data.serverName in a frame: a non-empty string, or
\* Absent (a missing or empty name; both are falsy in `data?.name || ...`).
NameInputs == ServerNames \cup {Absent}

\* A string is its sequence of UTF-16 code units.
Str(units) == [t |-> "string", v |-> units]
Undef == [t |-> "undefined", v |-> <<>>]
Num(n) == [t |-> "number", v |-> <<n>>]
Arr(elements) == [t |-> "array", v |-> elements]

\* The secret of the deployment, "ab", and the unset variable.
SecretAB == Str(<<97, 98>>)
SecretInputs == {SecretAB, Undef}

\* Tokens a frame can carry: the secret, a wrong value of the same length,
\* a shorter one, no token, and a number.
TokenInputs ==
  { Str(<<97, 98>>), Str(<<97, 99>>), Str(<<97>>), Undef, Num(7) }

\* The `type` of a frame: a number, a string, or nothing.
TNum(n) == [t |-> "number", v |-> n]
TStr(x) == [t |-> "string", v |-> x]
TUndef == [t |-> "undefined", v |-> "undefined"]

(* ---------------------------------------------------------------------- *)
(* messageTypes.js                                                         *)
(* ---------------------------------------------------------------------- *)

\* The object literal: constant name -> numeric id.
MessageTypeIds ==
  [k \in {"SERVER_CONNECT", "CLIENT_CONNECT", "SERVER_CONNECT_RESULT", "USER_CONNECTED"} |->
     CASE k = "SERVER_CONNECT" -> TNum("1")
       [] k = "CLIENT_CONNECT" -> TNum("2")
       [] k = "SERVER_CONNECT_RESULT" -> TNum("3")
       [] k = "USER_CONNECTED" -> TNum("4")]

\* The table after the loop that adds, for every entry, the reverse entry
\* MessageTypes[value] = key. Property keys are strings: 1 and "1" are one key.
MessageTypes ==
  [k \in DOMAIN MessageTypeIds \cup {MessageTypeIds[n].v : n \in DOMAIN MessageTypeIds} |->
     IF k \in DOMAIN MessageTypeIds
       THEN MessageTypeIds[k]
       ELSE TStr(CHOOSE n \in DOMAIN MessageTypeIds : MessageTypeIds[n].v = k)]

\* MessageTypes[type]: the property lookup of the 'message' handler.
LookupType(type) ==
  IF type.v \in DOMAIN MessageTypes THEN MessageTypes[type.v] ELSE TUndef

(* ---------------------------------------------------------------------- *)
(* isValidToken                                                            *)
(* ---------------------------------------------------------------------- *)

\* JavaScript truthiness of a token or secret value.
Truthy(x) ==
  CASE x.t = "undefined" -> FALSE
    [] x.t = "string" -> x.v # <<>>
    [] x.t = "number" -> x.v # <<0>>
    [] OTHER -> TRUE

IsHigh(u) == u >= 55296 /\ u <= 56319
IsLow(u) == u >= 56320 /\ u <= 57343

\* Buffer.from(string): the UTF-8 bytes of a sequence of UTF-16 code units; a
\* surrogate pair gives four bytes, a lone surrogate the bytes of U+FFFD.
RECURSIVE Utf8(_)
Utf8(units) ==
  IF units = <<>> THEN <<>>
  ELSE LET u == Head(units)
           rest == Tail(units)
       IN CASE u < 128 -> <<u>> \o Utf8(rest)
            [] u >= 128 /\ u < 2048 ->
                 <<192 + (u \div 64), 128 + (u % 64)>> \o Utf8(rest)
            [] IsHigh(u) /\ rest # <<>> /\ IsLow(Head(rest)) ->
                 LET c == 65536 + (u - 55296) * 1024 + (Head(rest) - 56320)
                 IN <<240 + (c \div 262144), 128 + ((c \div 4096) % 64),
                      128 + ((c \div 64) % 64), 128 + (c % 64)>> \o Utf8(Tail(rest))
            [] (IsHigh(u) \/ IsLow(u)) /\ ~(IsHigh(u) /\ rest # <<>> /\ IsLow(Head(rest))) ->
                 <<239, 191, 189>> \o Utf8(rest)
            [] OTHER ->
                 <<224 + (u \div 4096), 128 + ((u \div 64) % 64), 128 + (u % 64)>>
                   \o Utf8(rest)

\* Buffer.from(value): bytes for a string or an array of bytes; a number (or
\* any other non-buffer value) makes it throw a TypeError.
BufferFrom(x) ==
  CASE x.t = "string" -> [threw |-> FALSE, bytes |-> Utf8(x.v)]
    [] x.t = "array" -> [threw |-> FALSE, bytes |-> [i \in DOMAIN x.v |-> x.v[i] % 256]]
    [] OTHER -> [threw |-> TRUE, bytes |-> <<>>]

\* crypto.timingSafeEqual on two buffers of the same length.
timingSafeEqual(a, b) == a = b

\* One run of isValidToken: its outcome, whether crypto.timingSafeEqual was
\* called, and the buffers it was called with.
Run(result, compared, a, b) == [result |-> result, compared |-> compared, a |-> a, b |-> b]

\* crypto.timingSafeEqual(a, b) as the last statement of isValidToken: it
\* throws a RangeError when the buffers differ in length.
Compare(a, b) ==
  Run(IF Len(a) # Len(b) THEN "throws"
      ELSE IF timingSafeEqual(a, b) THEN "true" ELSE "false",
      TRUE, a, b)

\* Mutant of isValidTokenRun: the lengths are not compared before the
\* comparator is called.
isValidTokenRunNoLengthCheck(token, expected) ==
  IF ~Truthy(token) \/ ~Truthy(expected) THEN Run("false", FALSE, <<>>, <<>>)
  ELSE LET tokenBuffer == BufferFrom(token)
           expectedBuffer == BufferFrom(expected)
       IN IF tokenBuffer.threw \/ expectedBuffer.threw
            THEN Run("throws", FALSE, <<>>, <<>>)
          ELSE Compare(tokenBuffer.bytes, expectedBuffer.bytes)

\* isValidToken(token) with process.env.GAME_SERVER_TOKEN = expected, step by
\* step.
isValidTokenRun(token, expected) ==
  IF ~Truthy(token) \/ ~Truthy(expected) THEN Run("false", FALSE, <<>>, <<>>)
  ELSE LET tokenBuffer == BufferFrom(token)
           expectedBuffer == BufferFrom(expected)
       IN IF tokenBuffer.threw \/ expectedBuffer.threw
            THEN Run("throws", FALSE, <<>>, <<>>)
          ELSE IF Len(tokenBuffer.bytes) # Len(expectedBuffer.bytes)
            THEN Run("false", FALSE, <<>>, <<>>)
          ELSE Compare(tokenBuffer.bytes, expectedBuffer.bytes)

\* isValidToken(token) with process.env.GAME_SERVER_TOKEN = expected:
\* "true", "false", or "throws" when Buffer.from rejects the token.
isValidToken(token, expected) == isValidTokenRun(token, expected).result

(* ---------------------------------------------------------------------- *)
(* Frames                                                                  *)
(* ---------------------------------------------------------------------- *)

\* The `data` of an inbound frame; present = FALSE is a frame without data.
Data(name, token, serverName) ==
  [present |-> TRUE, name |-> name, token |-> token, serverName |-> serverName]
NoData == [present |-> FALSE, name |-> Absent, token |-> Undef, serverName |-> Absent]

\* An inbound frame: the text JSON.parse is given. raw tells what it parses
\* to: an object, null, a primitive (number, string, boolean), or nothing
\* (the text is not JSON).
Frame(type, data) == [raw |-> "object", type |-> type, data |-> data]
BadFrame(raw) == [raw |-> raw, type |-> TUndef, data |-> NoData]

\* Types of frames without data: a SERVER_CONNECT, the two kinds the hub only
\* sends, an unknown kind, and no type.
TypeInputs == { TNum("1"), TNum("3"), TNum("4"), TNum("99"), TUndef }

Frames ==
  {Frame(TNum("1"), Data(n, tok, Absent)) : n \in NameInputs, tok \in TokenInputs}
  \cup {Frame(TStr("SERVER_CONNECT"), Data(n, SecretAB, Absent)) : n \in NameInputs}
  \cup {Frame(ty, Data(Absent, Undef, n)) :
     ty \in {TNum("2"), TStr("CLIENT_CONNECT")}, n \in NameInputs}
  \cup {Frame(ty, NoData) : ty \in TypeInputs}
  \cup {BadFrame(raw) : raw \in {"unparsable", "null", "primitive"}}

\* The text of a `message` property: a template and the name put into it.
Text(template, arg) == [template |-> template, arg |-> arg]
NoText == Text(Absent, Absent)

\* The `data` object of an outbound envelope; a field that the object does
\* not have is Absent.
OutData(message, server_id, token, username, success) ==
  [message |-> message, server_id |-> server_id, token |-> token,
   username |-> username, success |-> success]

\* An outbound envelope as JSON.stringify writes it: `type`, `data`, and a
\* top-level `success` ("true", "false", or Absent).
Envelope(type, data, success) == [type |-> type, data |-> data, success |-> success]

\* The messages the login service relays: USER_CONNECTED{username, token}.
UserConnected(username, token) ==
  Envelope(TStr("USER_CONNECTED"), OutData(NoText, Absent, token, username, Absent), Absent)
RelayMessages == {UserConnected("bob", "t"), UserConnected("alice", "u")}

(* ---------------------------------------------------------------------- *)
(* State                                                                   *)
(* ---------------------------------------------------------------------- *)

VARIABLES
  GAME_SERVER_TOKEN, \* process.env.GAME_SERVER_TOKEN
  connectedServers,  \* the Map: server name -> connection (NoSession: no key)
  context,           \* per connection: serverName, authenticated
  readyState,        \* per connection: "NONE" (not accepted yet), "OPEN",
                     \* "CLOSING" (ws.close() called), "CLOSED" ('close' fired)
  io,                \* the calls the last handler made on connections, in
                     \* order: ws.send(frame) and ws.close()
  lastOp,            \* the handler that ran last and its outcome
  wire,              \* per connection: the frames written to its transport,
                     \* in order (kept by SpecFifo only)
  relays,            \* the sendMessageToServer calls that have returned, in
                     \* order (kept by SpecFifo only)
  call,              \* the last call of a function or request that is checked
                     \* on its own, with its arguments and its outcome
  db                 \* the MongoDB database: the user document, the characters
                     \* collection and the open transactions

vars ==
  <<GAME_SERVER_TOKEN, connectedServers, context, readyState, io, lastOp, wire, relays,
    call, db>>

\* The variables of the hub.
hubVars ==
  <<GAME_SERVER_TOKEN, connectedServers, context, readyState, io, lastOp, wire, relays>>

\* The handler record kept in lastOp: the handler, the connection it ran for
\* (for a relay, the connection it looked up), the kind of frame it was
\* given, the connection the Map held under the name the handler used when
\* it started, the branch it took and the value it returned.
Op(op, s, input, was, result, returned) ==
  [op |-> op, s |-> s, input |-> input, was |-> was, result |-> result,
   returned |-> returned]

\* No function has been called on its own.
NoCall == [fn |-> "none"]

\* The hub does not use the database.
NoDb == [connected |-> FALSE]

NewContext == [serverName |-> DefaultServerName, authenticated |-> FALSE]

Init ==
  /\ GAME_SERVER_TOKEN \in SecretInputs
  /\ connectedServers = [n \in ServerNames |-> NoSession]
  /\ context = [s \in Sessions |-> NewContext]
  /\ readyState = [s \in Sessions |-> "NONE"]
  /\ io = <<>>
  /\ lastOp = Op("init", NoSession, "none", NoSession, "none", "undefined")
  /\ wire = [s \in Sessions |-> <<>>]
  /\ relays = <<>>
  /\ call = NoCall
  /\ db = NoDb

\* getConnectedServerNames(): the keys of the Map.
getConnectedServerNames == {n \in ServerNames : connectedServers[n] # NoSession}

\* connectedServers.get(name); a missing or empty name is no key of the Map.
MapGet(name) == IF name \in ServerNames THEN connectedServers[name] ELSE NoSession

\* No frame (the frame of a call that is not a send).
NoMessage == Envelope(TUndef, OutData(NoText, Absent, Absent, Absent, Absent), Absent)

\* ws.send(frame) on connection s: the frame is written to the transport when
\* the connection is open; after ws.close() or the close of the transport
\* nothing is written.
WsSend(s, frame) ==
  [call |-> "send", ws |-> s, frame |-> frame, written |-> readyState[s] = "OPEN"]

\* ws.close() on connection s.
WsCloseCall(s) == [call |-> "close", ws |-> s, frame |-> NoMessage, written |-> FALSE]

\* The frames a sequence of calls writes to the transport of connection s.
RECURSIVE WrittenTo(_, _)
WrittenTo(calls, s) ==
  IF calls = <<>> THEN <<>>
  ELSE LET c == Head(calls)
       IN (IF c.call = "send" /\ c.ws = s /\ c.written THEN <<c.frame>> ELSE <<>>)
            \o WrittenTo(Tail(calls), s)

(* ---------------------------------------------------------------------- *)
(* wss.on('connection')                                                    *)
(* ---------------------------------------------------------------------- *)

\* A connection is accepted: a new ws with a fresh context. Connections are
\* numbered in the order in which they are accepted.
Connect(s) ==
  /\ readyState[s] = "NONE"
  /\ \A r \in Sessions : r < s => readyState[r] # "NONE"
  /\ readyState' = [readyState EXCEPT ![s] = "OPEN"]
  /\ context' = [context EXCEPT ![s] = NewContext]
  /\ lastOp' = Op("connection", s, "none", NoSession, "none", "undefined")
  /\ io' = <<>>
  /\ UNCHANGED <<GAME_SERVER_TOKEN, connectedServers>>

(* ---------------------------------------------------------------------- *)
(* handleServerConnect                                                     *)
(* ---------------------------------------------------------------------- *)

\* data?.name || context.serverName
ServerNameOf(s, data) ==
  IF data.present /\ data.name # Absent THEN data.name ELSE context[s].serverName

\* data?.token
TokenOf(data) == IF data.present THEN data.token ELSE Undef

\* The envelope sent when the token is rejected.
AuthFailedReply(serverName) ==
  Envelope(MessageTypes["3"],
           OutData(Text("Autenticacion fallida para ", serverName),
                   Absent, Absent, Absent, Absent),
           "false")

\* Mutant of RegisteredReply: the reply reports a failure.
RegisteredReplyAsFailure(serverName) ==
  Envelope(MessageTypes["3"],
           OutData(Text("Servidor registrado correctamente ", serverName),
                   serverName, Absent, Absent, Absent),
           "false")

\* The envelope sent when the server is registered.
RegisteredReply(serverName) ==
  Envelope(MessageTypes["3"],
           OutData(Text("Servidor registrado correctamente ", serverName),
                   serverName, Absent, Absent, Absent),
           "true")

\* ws.close(): an open connection starts closing.
WsClose(s) ==
  IF readyState[s] = "OPEN" THEN [readyState EXCEPT ![s] = "CLOSING"] ELSE readyState

\* Mutant of ContextAfterRegister: an authenticated session keeps the name
\* it has.
ContextAfterRegisterKeepingName(s, serverName) ==
  [context EXCEPT ![s] =
     [serverName |-> IF context[s].authenticated THEN context[s].serverName
                     ELSE serverName,
      authenticated |-> TRUE]]

\* context.serverName = serverName; context.authenticated = true
ContextAfterRegister(s, serverName) ==
  [context EXCEPT ![s] = [serverName |-> serverName, authenticated |-> TRUE]]

\* Mutant of ServersAfterRegister: the Map is emptied before it is written.
ServersAfterRegisterOnly(s, serverName) ==
  [n \in ServerNames |-> IF n = serverName THEN s ELSE NoSession]

\* Mutant of ServersAfterRegister: a name that is taken keeps its entry.
ServersAfterRegisterFirstWins(s, serverName) ==
  IF connectedServers[serverName] # NoSession
    THEN connectedServers
    ELSE [connectedServers EXCEPT ![serverName] = s]

\* Mutant of ServersAfterRegister: the Map is not written.
ServersAfterRegisterNoSet(s, serverName) == connectedServers

\* connectedServers.set(serverName, ws)
ServersAfterRegister(s, serverName) ==
  [connectedServers EXCEPT ![serverName] = s]

\* isValidToken, tabulated over the tokens and the secrets of the model.
TokenValidity ==
  [token \in TokenInputs, expected \in SecretInputs |-> isValidToken(token, expected)]

\* The branch handleServerConnect takes: "throws" (isValidToken throws, and
\* the 'message' handler catches it), "rejected" or "registered".
ServerConnectResult(s, data) ==
  LET valid == TokenValidity[TokenOf(data), GAME_SERVER_TOKEN]
  IN CASE valid = "throws" -> "threw"
       [] valid = "false" -> "rejected"
       [] valid = "true" -> "registered"

handleServerConnect(s, data) ==
  LET serverName == ServerNameOf(s, data)
      result == ServerConnectResult(s, data)
  IN CASE result = "rejected" ->
            /\ io' = <<WsSend(s, AuthFailedReply(serverName)), WsCloseCall(s)>>
            /\ readyState' = WsClose(s)
            /\ UNCHANGED <<connectedServers, context>>
       [] result = "registered" ->
            /\ context' = ContextAfterRegister(s, serverName)
            /\ connectedServers' = ServersAfterRegister(s, serverName)
            /\ io' = <<WsSend(s, RegisteredReply(serverName))>>
            /\ UNCHANGED readyState
       [] OTHER ->
            /\ io' = <<>>
            /\ UNCHANGED <<connectedServers, context, readyState>>

(* ---------------------------------------------------------------------- *)
(* handleClientConnect                                                     *)
(* ---------------------------------------------------------------------- *)

\* data?.serverName
RequestedServer(data) == IF data.present THEN data.serverName ELSE Absent

\* Mutant of ClientConnectReply: the lookup result is ignored.
ClientConnectReplyAlwaysFound(serverName) ==
  Envelope(MessageTypes["2"], OutData(NoText, Absent, "token", Absent, Absent), Absent)

\* Mutant of ClientConnectReply: the reply is sent as a SERVER_CONNECT_RESULT.
ClientConnectReplyAsResult(serverName) ==
  IF MapGet(serverName) # NoSession
    THEN Envelope(MessageTypes["3"],
                  OutData(NoText, Absent, "token", Absent, Absent), Absent)
    ELSE Envelope(MessageTypes["3"],
                  OutData(Text("Servidor no encontrado ", serverName),
                          Absent, Absent, Absent, Absent), Absent)

\* The envelope handleClientConnect sends: a token when the requested server
\* is in the Map, a message when it is not.
ClientConnectReply(serverName) ==
  IF MapGet(serverName) # NoSession
    THEN Envelope(MessageTypes["2"],
                  OutData(NoText, Absent, "token", Absent, Absent), Absent)
    ELSE Envelope(MessageTypes["2"],
                  OutData(Text("Servidor no encontrado ", serverName),
                          Absent, Absent, Absent, Absent), Absent)

handleClientConnect(s, data) ==
  /\ io' = <<WsSend(s, ClientConnectReply(RequestedServer(data)))>>
  /\ UNCHANGED <<connectedServers, context, readyState>>

(* ---------------------------------------------------------------------- *)
(* ws.on('message')                                                        *)
(* ---------------------------------------------------------------------- *)

\* Mutant of Dispatch: a CLIENT_CONNECT is answered whether or not the
\* session is authenticated.
DispatchWithoutAuthCheck(s, frame) ==
  IF frame.raw \in {"unparsable", "null"} THEN "malformed"
  ELSE LET typeStr == LookupType(frame.type)
       IN CASE typeStr = TStr("SERVER_CONNECT") -> ServerConnectResult(s, frame.data)
            [] typeStr = TStr("CLIENT_CONNECT") -> "replied"
            [] OTHER -> "unhandled"

\* The branch of the 'message' handler a frame takes: "malformed" (JSON.parse
\* or the destructuring throws), the branch of handleServerConnect, "ignored"
\* or "replied" for a CLIENT_CONNECT, "unhandled" for the default case.
Dispatch(s, frame) ==
  IF frame.raw \in {"unparsable", "null"} THEN "malformed"
  ELSE LET typeStr == LookupType(frame.type)
       IN CASE typeStr = TStr("SERVER_CONNECT") -> ServerConnectResult(s, frame.data)
            [] typeStr = TStr("CLIENT_CONNECT") ->
                 IF ~context[s].authenticated THEN "ignored" ELSE "replied"
            [] OTHER -> "unhandled"

\* Mutant of Handle: a frame no handler is run for closes the connection.
HandleClosingOnDrop(s, frame, branch) ==
  CASE branch \in {"rejected", "registered"} -> handleServerConnect(s, frame.data)
    [] branch = "replied" -> handleClientConnect(s, frame.data)
    [] OTHER ->
         /\ io' = <<WsCloseCall(s)>>
         /\ readyState' = WsClose(s)
         /\ UNCHANGED <<connectedServers, context>>

\* Mutant of Handle: the catch block closes the connection.
HandleClosingOnError(s, frame, branch) ==
  CASE branch \in {"rejected", "registered"} -> handleServerConnect(s, frame.data)
    [] branch = "replied" -> handleClientConnect(s, frame.data)
    [] branch \in {"malformed", "threw"} ->
         /\ io' = <<WsCloseCall(s)>>
         /\ readyState' = WsClose(s)
         /\ UNCHANGED <<connectedServers, context>>
    [] OTHER ->
         /\ io' = <<>>
         /\ UNCHANGED <<connectedServers, context, readyState>>

\* The effect of the 'message' handler on the hub when the frame takes the
\* given branch.
Handle(s, frame, branch) ==
  CASE branch \in {"rejected", "registered"} -> handleServerConnect(s, frame.data)
    [] branch = "replied" -> handleClientConnect(s, frame.data)
    [] OTHER ->
         /\ io' = <<>>
         /\ UNCHANGED <<connectedServers, context, readyState>>

\* The effect of the 'message' handler on the hub.
OnMessage(s, frame) == Handle(s, frame, Dispatch(s, frame))

\* The kind of frame the 'message' handler is given: type 1 with the
\* configured secret as token, type 1 with another token, type 2, or any
\* other text.
InputOf(frame) ==
  CASE frame.type = TNum("1") ->
         IF Truthy(GAME_SERVER_TOKEN) /\ TokenOf(frame.data) = GAME_SERVER_TOKEN
         THEN "connect-with-secret" ELSE "connect"
    [] frame.type = TNum("2") -> "query"
    [] OTHER -> "other"

\* The connection the Map holds under the name a handler uses; NoSession for
\* a frame no handler is run for.
NameUsed(s, frame, branch) ==
  CASE branch \in {"rejected", "registered"} -> MapGet(ServerNameOf(s, frame.data))
    [] branch = "replied" -> MapGet(RequestedServer(frame.data))
    [] OTHER -> NoSession

\* A frame arrives on a connection whose 'close' has not fired.
Message(s, frame) ==
  LET branch == Dispatch(s, frame)
  IN /\ readyState[s] \in {"OPEN", "CLOSING"}
     /\ lastOp' = Op("message", s, InputOf(frame), NameUsed(s, frame, branch),
                     branch, "undefined")
     /\ Handle(s, frame, branch)
     /\ UNCHANGED GAME_SERVER_TOKEN

(* ---------------------------------------------------------------------- *)
(* ws.on('close')                                                          *)
(* ---------------------------------------------------------------------- *)

\* Mutant of ServersAfterClose: the 'close' handler deletes nothing.
ServersAfterCloseNoDelete(s) == connectedServers

\* connectedServers.delete(context.serverName)
ServersAfterClose(s) ==
  [connectedServers EXCEPT ![context[s].serverName] = NoSession]

\* The transport of a connection closes and its 'close' handler runs.
Close(s) ==
  /\ readyState[s] \in {"OPEN", "CLOSING"}
  /\ readyState' = [readyState EXCEPT ![s] = "CLOSED"]
  /\ connectedServers' = ServersAfterClose(s)
  /\ lastOp' = Op("close", s, "none", MapGet(context[s].serverName), "none", "undefined")
  /\ io' = <<>>
  /\ UNCHANGED <<GAME_SERVER_TOKEN, context>>

(* ---------------------------------------------------------------------- *)
(* sendMessageToServer                                                     *)
(* ---------------------------------------------------------------------- *)

\* Names the login service relays to: a server name, or one no server uses.
RelayNames == ServerNames \cup {"Unknown"}

\* The value sendMessageToServer returns: it has no return statement.
RelayReturn(name) == "undefined"

\* The branch sendMessageToServer takes: the info log or the warning.
RelayResult(name) == IF MapGet(name) # NoSession THEN "sent" ELSE "notfound"

\* The calls sendMessageToServer makes: ws.send(JSON.stringify(msg)) on the
\* connection the Map holds under the name, nothing when there is none.
RelayCalls(name, msg) ==
  IF MapGet(name) # NoSession THEN <<WsSend(MapGet(name), msg)>> ELSE <<>>

sendMessageToServer(name, msg) ==
  LET ws == MapGet(name)
  IN /\ io' = RelayCalls(name, msg)
     /\ lastOp' = Op("relay", ws, "none", ws, RelayResult(name), RelayReturn(name))
     /\ UNCHANGED <<GAME_SERVER_TOKEN, connectedServers, context, readyState>>

(* ---------------------------------------------------------------------- *)
(* login                                                                   *)
(* ---------------------------------------------------------------------- *)

\* The users that log in, and the logins whose credentials are verified,
\* each with the token jwt.sign gives it.
Usernames == {"bob", "alice"}
Logins == {[username |-> "bob", token |-> "t"], [username |-> "alice", token |-> "u"]}

\* Mutant of LoginMessage: the message carries another token than the one
\* login returns.
LoginMessageOtherToken(username, token) == UserConnected(username, "other")

\* The message login passes to sendMessageToServer.
LoginMessage(username, token) == UserConnected(username, token)

\* What the login flow gets from the relay: the value of the call, which
\* login does not assign or test.
LoginSeesRelay(serverName) == RelayReturn(serverName)

\* What login reports once the credentials are verified: it logs "Login
\* exitoso. Token enviado a GameServer" and returns {id, username, token},
\* whatever the relay did.
LoginReport(serverName) == "token-sent"

\* login({username, password, serverName}): verified is whether the user was
\* found and the password matched, token is what jwt.sign returns. With the
\* credentials verified login calls sendMessageToServer once and returns the
\* token; otherwise it throws before it signs or sends anything.
Login(username, verified, token, serverName) ==
  /\ io' = IF verified THEN RelayCalls(serverName, LoginMessage(username, token)) ELSE <<>>
  /\ lastOp' = IF verified
                THEN Op("login", MapGet(serverName), username, MapGet(serverName),
                        RelayResult(serverName), token)
                ELSE Op("login", NoSession, username, NoSession, "invalid", "throws")
  /\ UNCHANGED <<GAME_SERVER_TOKEN, connectedServers, context, readyState>>

(* ---------------------------------------------------------------------- *)
(* Specification                                                           *)
(* ---------------------------------------------------------------------- *)

\* The histories are not kept.
Unlogged == UNCHANGED <<wire, relays, call, db>>

Next ==
  \/ \E s \in Sessions : Connect(s) /\ Unlogged
  \/ \E s \in Sessions, frame \in Frames : Message(s, frame) /\ Unlogged
  \/ \E s \in Sessions : Close(s) /\ Unlogged
  \/ \E name \in RelayNames, msg \in RelayMessages :
       sendMessageToServer(name, msg) /\ Unlogged

Spec == Init /\ [][Next]_vars

(* ---------------------------------------------------------------------- *)
(* Specification with the login service as the caller of the relay         *)
(* ---------------------------------------------------------------------- *)

NextLogin ==
  \/ \E s \in Sessions : Connect(s) /\ Unlogged
  \/ \E s \in Sessions, frame \in Frames : Message(s, frame) /\ Unlogged
  \/ \E s \in Sessions : Close(s) /\ Unlogged
  \/ \E l \in Logins, serverName \in RelayNames :
       Login(l.username, TRUE, l.token, serverName) /\ Unlogged
  \/ \E username \in Usernames, serverName \in RelayNames :
       Login(username, FALSE, Absent, serverName) /\ Unlogged

SpecLogin == Init /\ [][NextLogin]_vars

(* ---------------------------------------------------------------------- *)
(* Specification with the history of the transports                        *)
(* ---------------------------------------------------------------------- *)

\* Bounds of the histories: the relay calls made, and the frames written to
\* all transports together.
MaxRelays == 3
MaxWire == 6

\* The number of frames written to the transports of connections 1..n.
RECURSIVE Written(_, _)
Written(w, n) == IF n = 0 THEN 0 ELSE Len(w[n]) + Written(w, n - 1)

\* Mutant of WireAfter: the transport puts a new frame before the old ones.
WireAfterNewestFirst(calls) ==
  [s \in Sessions |-> WrittenTo(calls, s) \o wire[s]]

\* The transports after the calls of a handler: ws.send appends the frame to
\* what the connection has written so far.
WireAfter(calls) ==
  [s \in Sessions |-> wire[s] \o WrittenTo(calls, s)]

\* The frames of a handler's calls are written, and no relay call returned.
Logged ==
  /\ wire' = WireAfter(io')
  /\ Written(wire', MaxSessions) <= MaxWire
  /\ relays' = relays
  /\ call' = call
  /\ db' = db

\* The frames clients send in SpecFifo: a SERVER_CONNECT with the secret,
\* with a name and without, and a CLIENT_CONNECT.
FifoFrames ==
  {Frame(TNum("1"), Data(n, SecretAB, Absent)) : n \in {"Zone1", Absent}}
  \cup {Frame(TNum("2"), Data(Absent, Undef, "Zone1"))}

\* The message of the next login; the token tells the messages apart.
NextUserConnected == UserConnected("bob", ToString(Len(relays) + 1))

\* sendMessageToServer is called and returns.
Relay(name) ==
  /\ Len(relays) < MaxRelays
  /\ sendMessageToServer(name, NextUserConnected)
  /\ wire' = WireAfter(io')
  /\ Written(wire', MaxSessions) <= MaxWire
  /\ relays' = Append(relays, [ws |-> MapGet(name), msg |-> NextUserConnected])
  /\ call' = call
  /\ db' = db

InitFifo == Init /\ GAME_SERVER_TOKEN = SecretAB

NextFifo ==
  \/ \E s \in Sessions : Connect(s) /\ Logged
  \/ \E s \in Sessions, frame \in FifoFrames : Message(s, frame) /\ Logged
  \/ \E s \in Sessions : Close(s) /\ Logged
  \/ \E name \in ServerNames : Relay(name)

SpecFifo == InitFifo /\ [][NextFifo]_vars

(* ---------------------------------------------------------------------- *)
(* Properties                                                              *)
(* ---------------------------------------------------------------------- *)

\* A frame the hub dispatches as SERVER_CONNECT (numeric type 1).
ServerConnectFrame(name, token) == Frame(TNum("1"), Data(name, token, Absent))

\* A frame the hub dispatches as CLIENT_CONNECT (numeric type 2).
ClientConnectFrame(serverName) == Frame(TNum("2"), Data(Absent, Undef, serverName))

\* The last step was the 'message' handler of connection s, given a frame of
\* the kind input.
MessageStepOf(s, input) ==
  lastOp'.op = "message" /\ lastOp'.s = s /\ lastOp'.input = input

\* C1: sessions A and B are both registered under the same name and B
\* registered after A (the Map holds B under the name); when A closes while B
\* is open, the name stays in connectedNames() and its entry still is B.
C1_StaleCloseKeepsNewerEntry ==
  \A b \in Sessions :
    ( /\ lastOp.op = "close"
      /\ lastOp.s # b
      /\ lastOp.was = b
      /\ context[lastOp.s].authenticated
      /\ context[b].authenticated
      /\ context[b].serverName = context[lastOp.s].serverName
      /\ readyState[b] = "OPEN" )
    => /\ context[b].serverName \in getConnectedServerNames
       /\ connectedServers[context[b].serverName] = b

\* C2: every SERVER_CONNECT that carries a name and the configured secret as
\* token leaves its session authenticated under that name, with the name in
\* connectedNames() and mapped to the session.
C2_ValidConnectRegisters ==
  [][\A s \in Sessions, n \in ServerNames :
       ( /\ MessageStepOf(s, "connect-with-secret")
         /\ Truthy(GAME_SERVER_TOKEN)
         /\ Message(s, ServerConnectFrame(n, GAME_SERVER_TOKEN)) )
       => /\ context'[s] = [serverName |-> n, authenticated |-> TRUE]
          /\ n \in getConnectedServerNames'
          /\ connectedServers'[n] = s]_vars

\* C2 witness: a SERVER_CONNECT has just registered Zone1 for its session.
C2_Witness ==
  /\ lastOp.op = "message"
  /\ lastOp.result = "registered"
  /\ context[lastOp.s] = [serverName |-> "Zone1", authenticated |-> TRUE]
  /\ connectedServers["Zone1"] = lastOp.s
  /\ "Zone1" \in getConnectedServerNames

\* The tokens that are not the configured secret.
InvalidTokens == {tok \in TokenInputs : tok # GAME_SERVER_TOKEN \/ ~Truthy(GAME_SERVER_TOKEN)}

\* C3: every SERVER_CONNECT whose token is invalid (wrong value, wrong
\* length, missing, or not a string) fails: the connection is closed by the
\* hub, the session does not become authenticated and connectedNames() does
\* not gain the attempted name.
C3_InvalidTokenClosesConnection ==
  [][\A s \in Sessions, n \in NameInputs, tok \in InvalidTokens :
       ( /\ MessageStepOf(s, "connect")
         /\ Message(s, ServerConnectFrame(n, tok)) )
       => /\ readyState'[s] # "OPEN"
          /\ context' = context
          /\ connectedServers' = connectedServers]_vars

\* C4: a frame whose type is the name "SERVER_CONNECT" (resp.
\* "CLIENT_CONNECT") has the effect of the same frame with type 1 (resp. 2):
\* the same change of the contexts and the Map, and the same reply.
C4_NameAliasDispatchedLikeNumber ==
  [][\A s \in Sessions, n \in NameInputs :
       /\ ( /\ MessageStepOf(s, "other")
            /\ Message(s, Frame(TStr("SERVER_CONNECT"), Data(n, SecretAB, Absent))) )
          => OnMessage(s, Frame(TNum("1"), Data(n, SecretAB, Absent)))
       /\ ( /\ MessageStepOf(s, "other")
            /\ Message(s, Frame(TStr("CLIENT_CONNECT"), Data(Absent, Undef, n))) )
          => OnMessage(s, Frame(TNum("2"), Data(Absent, Undef, n)))]_vars

\* The frame of the only call of the last handler, when that call is a send
\* on connection s.
RepliedTo(s) == Len(io) >= 1 /\ io[1].call = "send" /\ io[1].ws = s

\* C5 as claimed: the reply to a successful SERVER_CONNECT for name N is a
\* SERVER_CONNECT_RESULT whose data carries success:true, server_id N and a
\* message; the reply to a failed one carries success:false in its data.
C5_SuccessInsideData ==
  /\ (lastOp.op = "message" /\ lastOp.result = "registered")
       => /\ RepliedTo(lastOp.s)
          /\ io[1].frame.type = TStr("SERVER_CONNECT_RESULT")
          /\ io[1].frame.data.success = "true"
          /\ io[1].frame.data.server_id = context[lastOp.s].serverName
          /\ io[1].frame.data.message # NoText
  /\ (lastOp.op = "message" /\ lastOp.result = "rejected")
       => /\ RepliedTo(lastOp.s)
          /\ io[1].frame.type = TStr("SERVER_CONNECT_RESULT")
          /\ io[1].frame.data.success = "false"

\* C5 as amended: the reply to a successful SERVER_CONNECT for name N is a
\* SERVER_CONNECT_RESULT envelope with success:true as a top-level field
\* beside type and data, whose data carries server_id N and a message (and no
\* success); the reply to a rejected one has the top-level field
\* success:false and a data that carries only a message.
C5_SuccessBesideData ==
  /\ (lastOp.op = "message" /\ lastOp.result = "registered")
       => /\ Len(io) = 1
          /\ RepliedTo(lastOp.s)
          /\ io[1].frame.type = TStr("SERVER_CONNECT_RESULT")
          /\ io[1].frame.success = "true"
          /\ io[1].frame.data.success = Absent
          /\ io[1].frame.data.server_id = context[lastOp.s].serverName
          /\ io[1].frame.data.message # NoText
          /\ io[1].frame.data.message.arg = context[lastOp.s].serverName
  /\ (lastOp.op = "message" /\ lastOp.result = "rejected")
       => /\ RepliedTo(lastOp.s)
          /\ io[1].frame.type = TStr("SERVER_CONNECT_RESULT")
          /\ io[1].frame.success = "false"
          /\ io[1].frame.data.success = Absent
          /\ io[1].frame.data.server_id = Absent
          /\ io[1].frame.data.message # NoText

\* C5 witness: the success reply for Zone1 has been written to the transport
\* of the session that registered.
C5_Witness ==
  /\ lastOp.op = "message"
  /\ lastOp.result = "registered"
  /\ WrittenTo(io, lastOp.s) = <<RegisteredReply("Zone1")>>
  /\ connectedServers["Zone1"] = lastOp.s

\* C6: when the name is registered, relay(name, message) writes exactly that
\* message, once, to the transport of the session registered under the name
\* and nothing to any other transport.
C6_RelayWritesToRegistered ==
  [][\A name \in ServerNames, msg \in RelayMessages :
       ( /\ lastOp'.op = "relay"
         /\ connectedServers[name] # NoSession
         /\ sendMessageToServer(name, msg) )
       => \A s \in Sessions :
            WrittenTo(io', s) = IF s = connectedServers[name] THEN <<msg>> ELSE <<>>]_vars

\* C7: relay(name, message) for a name that is not registered returns
\* NotFound, writes nothing to any transport and leaves the Map unchanged.
C7_RelayUnknownReturnsNotFound ==
  [][\A name \in RelayNames, msg \in RelayMessages :
       ( /\ lastOp'.op = "relay"
         /\ MapGet(name) = NoSession
         /\ sendMessageToServer(name, msg) )
       => /\ lastOp'.returned = "NotFound"
          /\ io' = <<>>
          /\ connectedServers' = connectedServers]_vars

\* A SERVER_CONNECT with the valid token and the session's own name (or no
\* name) arrives on a session that is already authenticated.
Reconnect(s, n) ==
  /\ MessageStepOf(s, "connect-with-secret")
  /\ Truthy(GAME_SERVER_TOKEN)
  /\ context[s].authenticated
  /\ n \in {context[s].serverName, Absent}
  /\ Message(s, ServerConnectFrame(n, GAME_SERVER_TOKEN))

\* C8 as claimed: re-sending SERVER_CONNECT with the same name and the valid
\* token on an already authenticated session leaves the name mapped to that
\* session and connectedNames() the same set as before the re-send.
C8_ReconnectKeepsNames ==
  [][\A s \in Sessions, n \in NameInputs :
       Reconnect(s, n)
       => /\ connectedServers'[context[s].serverName] = s
          /\ getConnectedServerNames' = getConnectedServerNames]_vars

\* C8 as amended: the re-send leaves the name mapped to the current session
\* and every other entry as it was; connectedNames() is the set before the
\* re-send together with the name (the same set when the name was still
\* registered, one name more when its entry had been removed meanwhile).
C8_ReconnectMapsNameToSession ==
  [][\A s \in Sessions, n \in NameInputs :
       Reconnect(s, n)
       => /\ connectedServers' = [connectedServers EXCEPT ![context[s].serverName] = s]
          /\ getConnectedServerNames' =
               getConnectedServerNames \cup {context[s].serverName}
          /\ context' = context]_vars

\* C8 witness: a session the Map already held under Zone1 has sent
\* SERVER_CONNECT again and is still the entry of Zone1, while the other
\* name is registered too.
C8_Witness ==
  /\ lastOp.op = "message"
  /\ lastOp.result = "registered"
  /\ lastOp.was = lastOp.s
  /\ context[lastOp.s] = [serverName |-> "Zone1", authenticated |-> TRUE]
  /\ connectedServers["Zone1"] = lastOp.s
  /\ getConnectedServerNames = ServerNames

\* C9: when an authenticated session that the Map holds under its name
\* closes, the name leaves connectedNames() and the other names stay (so the
\* set is empty when it was the only name).
C9_CloseOfOccupantRemovesName ==
  [][\A s \in Sessions :
       ( /\ lastOp'.op = "close"
         /\ context[s].authenticated
         /\ connectedServers[context[s].serverName] = s
         /\ Close(s) )
       => getConnectedServerNames' = getConnectedServerNames \ {context[s].serverName}]_vars

\* C9 witness: the only registered session has closed and no name is left.
C9_Witness ==
  /\ lastOp.op = "close"
  /\ lastOp.was = lastOp.s
  /\ context[lastOp.s].authenticated
  /\ readyState[lastOp.s] = "CLOSED"
  /\ getConnectedServerNames = {}

\* C10: the answer to CLIENT_CONNECT{serverName} on an authenticated session
\* reflects the Map at the moment of the query: it is the success answer (a
\* token) exactly when serverName is a key of the Map, and the failure answer
\* (a message naming the server) exactly when it is not.
C10_ClientConnectReflectsRegistry ==
  [][\A s \in Sessions, n \in NameInputs :
       ( /\ MessageStepOf(s, "query")
         /\ context[s].authenticated
         /\ Message(s, ClientConnectFrame(n)) )
       => /\ Len(io') = 1
          /\ io'[1].call = "send"
          /\ io'[1].ws = s
          /\ io'[1].written = (readyState[s] = "OPEN")
          /\ (n \in getConnectedServerNames
                => io'[1].frame.data.token = "token"
                   /\ io'[1].frame.data.message = NoText)
          /\ (n \notin getConnectedServerNames
                => io'[1].frame.data.token = Absent
                   /\ io'[1].frame.data.message.arg = n)]_vars

\* C10 witness: Zone1 was registered by a session that has closed, and a
\* query for Zone1 on another, authenticated session got the failure answer.
C10_Witness ==
  /\ lastOp.op = "message"
  /\ lastOp.result = "replied"
  /\ lastOp.was = NoSession
  /\ WrittenTo(io, lastOp.s) # <<>>
  /\ io[1].frame.data.message.arg = "Zone1"
  /\ \E r \in Sessions \ {lastOp.s} :
       /\ readyState[r] = "CLOSED"
       /\ context[r] = [serverName |-> "Zone1", authenticated |-> TRUE]

\* The last handler was the 'message' handler and it answered a
\* CLIENT_CONNECT with exactly one ws.send on its own connection.
ClientConnectAnswered ==
  /\ lastOp.op = "message"
  /\ lastOp.result = "replied"
  /\ Len(io) = 1
  /\ RepliedTo(lastOp.s)

C12_UnauthenticatedQueryIgnored ==
  [][\A s \in Sessions, n \in NameInputs :
       ( /\ MessageStepOf(s, "query")
         /\ ~context[s].authenticated
         /\ Message(s, ClientConnectFrame(n)) )
       => /\ io' = <<>>
          /\ connectedServers' = connectedServers
          /\ context' = context
          /\ readyState' = readyState]_vars

\* C12 witness: an open, unauthenticated connection has sent a CLIENT_CONNECT
\* while a server was registered, and the handler ignored it.
C12_Witness ==
  /\ lastOp.op = "message"
  /\ lastOp.input = "query"
  /\ lastOp.result = "ignored"
  /\ io = <<>>
  /\ readyState[lastOp.s] = "OPEN"
  /\ ~context[lastOp.s].authenticated
  /\ getConnectedServerNames # {}

\* The types of frames whose kind is neither SERVER_CONNECT nor
\* CLIENT_CONNECT: the two kinds the hub only sends, an unknown kind, and a
\* frame without type.
OtherKinds == { TNum("3"), TNum("4"), TNum("99"), TUndef }

\* C13: a frame whose kind is not SERVER_CONNECT or CLIENT_CONNECT is
\* dropped: the handler makes no call on any connection (no reply, no
\* close), and the Map, every context and the state of every connection are
\* as before.
C13_OtherKindsDropped ==
  [][\A s \in Sessions, ty \in OtherKinds :
       ( /\ MessageStepOf(s, "other")
         /\ Message(s, Frame(ty, NoData)) )
       => /\ io' = <<>>
          /\ connectedServers' = connectedServers
          /\ context' = context
          /\ readyState' = readyState]_vars

\* C13 witness: a registered, open session has been sent a frame of another
\* kind and is still open, authenticated and registered.
C13_Witness ==
  /\ lastOp.op = "message"
  /\ lastOp.input = "other"
  /\ lastOp.result = "unhandled"
  /\ io = <<>>
  /\ readyState[lastOp.s] = "OPEN"
  /\ context[lastOp.s].authenticated
  /\ connectedServers[context[lastOp.s].serverName] = lastOp.s

\* The texts that are not a {type, data} envelope: text that is not JSON,
\* the JSON null, and a JSON primitive.
MalformedTexts == {"unparsable", "null", "primitive"}

\* C14: a malformed frame is dropped: the handler makes no call on any
\* connection, and the Map, every context and the state of every connection
\* are as before; and the well-formed frame that follows a dropped one on the
\* same connection is processed as usual: a SERVER_CONNECT with a name and
\* the secret registers the session under the name and is answered, a
\* CLIENT_CONNECT on an authenticated session is answered.
C14_MalformedDroppedThenNormal ==
  [][/\ \A s \in Sessions, raw \in MalformedTexts :
          ( /\ MessageStepOf(s, "other")
            /\ Message(s, BadFrame(raw)) )
          => /\ io' = <<>>
             /\ connectedServers' = connectedServers
             /\ context' = context
             /\ readyState' = readyState
     /\ \A s \in Sessions, n \in ServerNames :
          ( /\ lastOp.op = "message"
            /\ lastOp.s = s
            /\ lastOp.result \in {"malformed", "unhandled"}
            /\ MessageStepOf(s, "connect-with-secret")
            /\ Message(s, ServerConnectFrame(n, GAME_SERVER_TOKEN)) )
          => /\ context'[s] = [serverName |-> n, authenticated |-> TRUE]
             /\ connectedServers'[n] = s
             /\ io' = <<WsSend(s, RegisteredReply(n))>>
     /\ \A s \in Sessions, n \in NameInputs :
          ( /\ lastOp.op = "message"
            /\ lastOp.s = s
            /\ lastOp.result \in {"malformed", "unhandled"}
            /\ context[s].authenticated
            /\ MessageStepOf(s, "query")
            /\ Message(s, ClientConnectFrame(n)) )
          => io' = <<WsSend(s, ClientConnectReply(n))>>]_vars

\* C14 witness: a registered, open session has sent text that is not JSON,
\* and is still open, authenticated and registered.
C14_Witness ==
  /\ lastOp.op = "message"
  /\ lastOp.result = "malformed"
  /\ io = <<>>
  /\ readyState[lastOp.s] = "OPEN"
  /\ context[lastOp.s].authenticated
  /\ connectedServers[context[lastOp.s].serverName] = lastOp.s

\* C15: every SERVER_CONNECT whose token is invalid is answered with the
\* failure response and then closed: the handler calls ws.send with the
\* failure envelope and after it ws.close(), both on the connection the
\* frame came from, and the connection is no longer open afterwards.
C15_FailureSentThenClosed ==
  [][\A s \in Sessions, n \in NameInputs, tok \in InvalidTokens :
       ( /\ MessageStepOf(s, "connect")
         /\ Message(s, ServerConnectFrame(n, tok)) )
       => /\ Len(io') = 2
          /\ io'[1].call = "send" /\ io'[1].ws = s
          /\ io'[1].frame.type = TStr("SERVER_CONNECT_RESULT")
          /\ io'[1].frame.success = "false"
          /\ io'[2].call = "close" /\ io'[2].ws = s
          /\ readyState'[s] # "OPEN"]_vars

\* C16: when a session registers successfully under a name the Map holds for
\* another, open session, the Map afterwards holds the registering session
\* under the name, and the handler makes no call on the displaced session
\* (no send, no close), whose state and context are as before.
C16_LastRegisteredWins ==
  [][\A s \in Sessions, n \in NameInputs :
       LET name == ServerNameOf(s, Data(n, GAME_SERVER_TOKEN, Absent))
           r == connectedServers[name]
       IN ( /\ MessageStepOf(s, "connect-with-secret")
            /\ r \notin {NoSession, s}
            /\ readyState[r] = "OPEN"
            /\ Message(s, ServerConnectFrame(n, GAME_SERVER_TOKEN)) )
          => /\ connectedServers'[name] = s
             /\ \A i \in 1..Len(io') : io'[i].ws # r
             /\ readyState'[r] = "OPEN"
             /\ context'[r] = context[r]]_vars

\* C16 witness: a session has registered under the name another session
\* held; the Map holds the newcomer and the displaced session is still open
\* and authenticated under the same name.
C16_Witness ==
  /\ lastOp.op = "message"
  /\ lastOp.result = "registered"
  /\ lastOp.was \notin {NoSession, lastOp.s}
  /\ readyState[lastOp.was] = "OPEN"
  /\ context[lastOp.was] = context[lastOp.s]
  /\ connectedServers[context[lastOp.s].serverName] = lastOp.s
  /\ io[1].written

\* The USER_CONNECTED frames among the frames a transport has written.
RelayFrames(frames) == SelectSeq(frames, LAMBDA f : f.type = TStr("USER_CONNECTED"))

\* The messages of the relay calls that looked up connection s, in the order
\* in which the calls returned.
RECURSIVE RelayedTo(_, _)
RelayedTo(calls, s) ==
  IF calls = <<>> THEN <<>>
  ELSE (IF Head(calls).ws = s THEN <<Head(calls).msg>> ELSE <<>>)
         \o RelayedTo(Tail(calls), s)

\* a holds elements of b in the order they have in b.
RECURSIVE IsSubSeq(_, _)
IsSubSeq(a, b) ==
  IF a = <<>> THEN TRUE
  ELSE IF b = <<>> THEN FALSE
  ELSE IF Head(a) = Head(b) THEN IsSubSeq(Tail(a), Tail(b))
  ELSE IsSubSeq(a, Tail(b))

\* C17: the relayed messages a session's transport has written are messages
\* of relay calls for that session, each written once and in the order in
\* which the calls returned, whatever relays to other names and replies of
\* the session itself come between them.
C17_RelayFifoPerSession ==
  \A s \in Sessions : IsSubSeq(RelayFrames(wire[s]), RelayedTo(relays, s))

\* C17 witness: a transport has written a relayed message, then a reply of
\* its own session, then the message of a later relay call, and the relay
\* call between the two went to another session.
C17_Witness ==
  \E s \in Sessions :
    /\ Len(wire[s]) = 4
    /\ Len(relays) = 3
    /\ wire[s][2] = relays[1].msg
    /\ wire[s][3].type # TStr("USER_CONNECTED")
    /\ wire[s][4] = relays[3].msg
    /\ relays[2].ws \notin {s, NoSession}
    /\ Len(wire[relays[2].ws]) = 2

\* C18: a transport failure of a connection is handled as its close: the
\* 'close' handler runs, the connection is closed and its own entry leaves
\* the Map, and every other session is unaffected: it keeps its state, its
\* context and its entry in the Map.
C18_FailureAffectsOnlyOwnSession ==
  [][\A s \in Sessions :
       ( /\ lastOp'.op = "close"
         /\ Close(s) )
       => /\ readyState'[s] = "CLOSED"
          /\ \A n \in ServerNames : connectedServers'[n] # s
          /\ \A r \in Sessions \ {s} :
               /\ readyState'[r] = readyState[r]
               /\ context'[r] = context[r]
               /\ \A n \in ServerNames :
                    connectedServers[n] = r => connectedServers'[n] = r]_vars

\* The results relay is specified to complete with.
TypedResults == {"Delivered", "NotFound", "Timeout"}

\* C19: whatever the Map holds and whatever the state of the connection it
\* holds under the name (open, closing after a rejected SERVER_CONNECT,
\* closed and still in the Map), sendMessageToServer returns one of the typed
\* results to its caller.
C19_RelayReturnsTypedResult ==
  lastOp.op = "relay" => lastOp.returned \in TypedResults

C21_LoginSeesNotFound ==
  [][\A l \in Logins, serverName \in RelayNames :
       ( /\ lastOp'.op = "login"
         /\ MapGet(serverName) = NoSession
         /\ Login(l.username, TRUE, l.token, serverName) )
       => /\ LoginSeesRelay(serverName) = "NotFound"
          /\ LoginReport(serverName) # "token-sent"]_vars

\* C22: a SERVER_CONNECT with the secret on a session that is already
\* authenticated, under its own name or another, makes the Map hold the
\* session under that name and makes that name the name of the session's
\* context; the context of an authenticated session changes in no other
\* step; and the close of an authenticated session removes the name of its
\* context from the Map.
C22_ReRegistrationMovesLastKnownName ==
  [][/\ \A s \in Sessions, n \in NameInputs :
          LET name == ServerNameOf(s, Data(n, GAME_SERVER_TOKEN, Absent))
          IN ( /\ MessageStepOf(s, "connect-with-secret")
               /\ context[s].authenticated
               /\ Message(s, ServerConnectFrame(n, GAME_SERVER_TOKEN)) )
             => /\ connectedServers'[name] = s
                /\ context'[s] = [serverName |-> name, authenticated |-> TRUE]
     /\ \A s \in Sessions :
          ( /\ context[s].authenticated
            /\ readyState[s] # "NONE"
            /\ ~(lastOp'.op = "message" /\ lastOp'.s = s /\ lastOp'.result = "registered") )
          => context'[s] = context[s]
     /\ \A s \in Sessions :
          ( /\ lastOp'.op = "close"
            /\ context[s].authenticated
            /\ Close(s) )
          => context[s].serverName \notin getConnectedServerNames']_vars

\* C22 witness: an authenticated session has registered again under a name
\* it did not hold; the Map holds it under the new name (and still under the
\* earlier one) and its context carries the new name.
C22_Witness ==
  /\ lastOp.op = "message"
  /\ lastOp.result = "registered"
  /\ lastOp.was = NoSession
  /\ connectedServers[context[lastOp.s].serverName] = lastOp.s
  /\ \E m \in ServerNames \ {context[lastOp.s].serverName} : connectedServers[m] = lastOp.s

\* C23: the close of a session that never authenticated leaves the Map as it
\* was, whatever it holds, an entry under the default name 'UnknownServer'
\* included.
C23_UnauthenticatedCloseKeepsMap ==
  [][\A s \in Sessions :
       ( /\ lastOp'.op = "close"
         /\ ~context[s].authenticated
         /\ Close(s) )
       => connectedServers' = connectedServers]_vars

\* C24: no entry of the Map points at a closed connection: every name in
\* getConnectedServerNames() maps to a connection whose 'close' handler has
\* not run.
C24_NoEntryForClosedSession ==
  \A n \in getConnectedServerNames : readyState[connectedServers[n]] # "CLOSED"

\* C25: a connection is the value of at most one key of the Map.
C25_SessionUnderOneName ==
  \A n \in getConnectedServerNames, m \in getConnectedServerNames :
    connectedServers[n] = connectedServers[m] => n = m

\* C26: an authenticated session stays authenticated, and a frame that
\* arrives on a connection after the hub called ws.close() on it (a rejected
\* SERVER_CONNECT) neither changes the Map nor is answered on the transport.
C26_NoRegistrationAfterFailure ==
  [][\A s \in Sessions :
       /\ (context[s].authenticated /\ readyState[s] # "NONE")
            => context'[s].authenticated
       /\ ( /\ lastOp'.op = "message"
            /\ lastOp'.s = s
            /\ readyState[s] = "CLOSING" )
          => /\ connectedServers' = connectedServers
             /\ WrittenTo(io', s) = <<>>]_vars

(* ---------------------------------------------------------------------- *)
(* isValidToken on its own                                                 *)
(* ---------------------------------------------------------------------- *)

\* Code units a token is made of: two ASCII letters, a two-byte letter, and
\* the two halves of a surrogate pair.
TokenUnits == {97, 98, 233, 55357, 56832}
MaxTokenLen == 2
TokenStrings == {Str(units) : units \in UNION {[1..n -> TokenUnits] : n \in 0..MaxTokenLen}}

\* The values `data.token` can have after JSON.parse: strings, nothing,
\* numbers and arrays of numbers.
TokenArgs ==
  TokenStrings \cup {Undef, Num(0), Num(7), Arr(<<97, 98>>), Arr(<<353>>)}

\* process.env.GAME_SERVER_TOKEN: unset, empty, or a string.
SecretArgs ==
  { Undef, Str(<<>>), Str(<<97>>), Str(<<97, 98>>), Str(<<233>>), Str(<<65533>>),
    Str(<<55357, 56832>>) }

InitToken ==
  /\ GAME_SERVER_TOKEN \in SecretArgs
  /\ connectedServers = [n \in ServerNames |-> NoSession]
  /\ context = [s \in Sessions |-> NewContext]
  /\ readyState = [s \in Sessions |-> "NONE"]
  /\ io = <<>>
  /\ lastOp = Op("init", NoSession, "none", NoSession, "none", "undefined")
  /\ wire = [s \in Sessions |-> <<>>]
  /\ relays = <<>>
  /\ call = NoCall
  /\ db = NoDb

\* One call of isValidToken(token).
CallIsValidToken(token) ==
  /\ call' = [fn |-> "isValidToken", token |-> token,
              run |-> isValidTokenRun(token, GAME_SERVER_TOKEN)]
  /\ UNCHANGED <<hubVars, db>>

NextToken == \E token \in TokenArgs : CallIsValidToken(token)

SpecToken == InitToken /\ [][NextToken]_vars

\* C27: isValidToken returns true exactly when the secret is set, the token is
\* not empty and the bytes of the token equal the bytes of the secret; a token
\* of another byte length is rejected without a call of the comparator, and
\* the comparator is only called with two buffers of the same length.
C27_TrueExactlyOnEqualBytes ==
  call.fn = "isValidToken" =>
    LET tokenBuffer == BufferFrom(call.token)
        expectedBuffer == BufferFrom(GAME_SERVER_TOKEN)
        bothBuffers == ~tokenBuffer.threw /\ ~expectedBuffer.threw
    IN /\ call.run.result = "true"
            <=> /\ Truthy(GAME_SERVER_TOKEN)
                /\ Truthy(call.token)
                /\ bothBuffers
                /\ tokenBuffer.bytes = expectedBuffer.bytes
       /\ (bothBuffers /\ Len(tokenBuffer.bytes) # Len(expectedBuffer.bytes))
            => /\ call.run.result = "false"
               /\ ~call.run.compared
       /\ call.run.compared => Len(call.run.a) = Len(call.run.b)

\* A token of the same two bytes as the secret was accepted by the comparator.
C27_Witness ==
  /\ call.fn = "isValidToken"
  /\ call.run.result = "true"
  /\ call.run.compared
  /\ Len(call.run.a) = 2

(* ---------------------------------------------------------------------- *)
(* models/User.js: the character slots of a user                           *)
(* ---------------------------------------------------------------------- *)

\* makeDefaultSlots builds five slots.
MaxSlots == 5

Null == [t |-> "null", v |-> <<>>]
NoCharacter == 0

\* A slot without a character, as makeDefaultSlots builds it.
EmptySlot(i) == [slot |-> i, characterId |-> NoCharacter, name_snapshot |-> Null]

makeDefaultSlots == [i \in 1..MaxSlots |-> EmptySlot(i)]

\* `characters` of a document that holds no array (undefined): a value that
\* no array of slots equals.
NotArray == <<[slot |-> -1, characterId |-> NoCharacter, name_snapshot |-> Null]>>
IsArray(x) == x # NotArray

\* UserSchema.pre('validate'): the slots are rebuilt when `characters` is not
\* an array or its length is not max_characters.
preValidate(doc) ==
  IF ~IsArray(doc.characters) \/ Len(doc.characters) # doc.max_characters
    THEN [doc EXCEPT !.characters = makeDefaultSlots]
    ELSE doc

\* The user document User.create stores: the schema defaults.
NewUser == [max_characters |-> 5, characters |-> makeDefaultSlots]

(* ---------------------------------------------------------------------- *)
(* createPlayer: controller and service                                    *)
(* ---------------------------------------------------------------------- *)

MaxCalls == 2
Calls == 1..MaxCalls

TheUser == 1
GhostUser == 2

\* String(x ?? ''): the code units of a string, nothing for undefined and null,
\* the digit of a one-digit number.
StringOrEmpty(x) ==
  CASE x.t = "string" -> x.v
    [] x.t = "number" -> <<48 + x.v[1]>>
    [] OTHER -> <<>>

IsSpace(u) == u \in {9, 10, 13, 32}

\* String.prototype.trim
RECURSIVE TrimStart(_)
TrimStart(units) ==
  IF units # <<>> /\ IsSpace(Head(units)) THEN TrimStart(Tail(units)) ELSE units

RECURSIVE TrimEnd(_)
TrimEnd(units) ==
  IF units # <<>> /\ IsSpace(units[Len(units)])
    THEN TrimEnd(SubSeq(units, 1, Len(units) - 1))
    ELSE units

Trim(units) == TrimEnd(TrimStart(units))

\* String.prototype.toLowerCase on ASCII letters.
ToLowerCase(units) ==
  [i \in DOMAIN units |-> IF units[i] >= 65 /\ units[i] <= 90 THEN units[i] + 32 ELSE units[i]]

\* The Authorization headers of a request: none, another scheme, a bearer
\* without token, a token that does not verify, the token of the user, and a
\* token of an account that is not in the database.
Authorizations ==
  {"", "Basic x", "Bearer ", "Bearer bad", "Bearer good", "Bearer ghost"}

\* token = authHeader.startsWith('Bearer ') ? authHeader.slice(7) : null
BearerToken(authHeader) ==
  CASE authHeader = "Bearer " -> ""
    [] authHeader = "Bearer bad" -> "bad"
    [] authHeader = "Bearer good" -> "good"
    [] authHeader = "Bearer ghost" -> "ghost"
    [] OTHER -> "null"

\* jwt.verify(token, JWT_SECRET): the id of the token, or 0 when it throws.
jwtVerify(token) ==
  CASE token = "good" -> TheUser
    [] token = "ghost" -> GhostUser
    [] OTHER -> 0

\* The messages of the errors createPlayer throws (accents left out).
TokenRequired == "Token de autenticacion requerido"
TokenInvalid == "Token invalido o expirado"
FieldsMissing == "Faltan campos requeridos: name, class"
AccountNotFound == "Cuenta no encontrada"
TooManyCharacters == "No puedes tener mas de 5 personajes"
NameExists == "El nombre del personaje ya existe"
WriteConflictMessage == "WriteConflict"
OtherFailure == "Character validation failed"

\* The switch of the controller on err.message.
HttpStatus(message) ==
  CASE message \in {TokenRequired, TokenInvalid} -> 401
    [] message = AccountNotFound -> 404
    [] message \in {TooManyCharacters, "Faltan campos requeridos: name, class, race"} -> 400
    [] message = NameExists -> 409
    [] OTHER -> 500

\* The names and classes of a request body.
NameArgs == {Undef, Str(<<32>>), Str(<<65>>), Str(<<32, 65, 32>>), Str(<<66>>)}
ClassArgs == {Undef, Str(<<>>), Str(<<87>>)}

Requests ==
  [authorization : Authorizations, name : NameArgs, class : ClassArgs]

normName(req) == Trim(StringOrEmpty(req.name))
normClass(req) == ToLowerCase(Trim(StringOrEmpty(req.class)))

\* The statements of the service before its first await: "" when none throws.
EntryError(req) ==
  LET token == BearerToken(req.authorization)
  IN IF token \in {"null", ""} THEN TokenRequired
     ELSE IF normName(req) = <<>> \/ normClass(req) = <<>> THEN FieldsMissing
     ELSE IF jwtVerify(token) = 0 THEN TokenInvalid
     ELSE ""

\* A call that is not running.
NoChar == [id |-> NoCharacter]
Idle ==
  [pc |-> "idle", userId |-> 0, name |-> <<>>, class |-> <<>>, snapUser |-> Null,
   snapChars |-> {}, freeIndex |-> 0, char |-> NoChar, doc |-> Null, wrote |-> FALSE,
   err |-> ""]

\* The response of a request.
Response(token, blank, message) ==
  [fn |-> "createPlayer", token |-> token, blank |-> blank,
   status |-> IF message = "" THEN 200 ELSE HttpStatus(message), message |-> message]

\* A user who has created k characters: they sit in the first k slots.
CharacterOf(i) == [id |-> i, userId |-> TheUser, name |-> <<80, 48 + i>>, class |-> <<119>>]
UserWith(k) ==
  [NewUser EXCEPT
   !.characters = [i \in 1..MaxSlots |->
                     IF i <= k
                       THEN [slot |-> i, characterId |-> i, name_snapshot |-> Str(<<80, 48 + i>>)]
                       ELSE EmptySlot(i)]]

InitPlayers ==
  /\ GAME_SERVER_TOKEN = SecretAB
  /\ connectedServers = [n \in ServerNames |-> NoSession]
  /\ context = [s \in Sessions |-> NewContext]
  /\ readyState = [s \in Sessions |-> "NONE"]
  /\ io = <<>>
  /\ lastOp = Op("init", NoSession, "none", NoSession, "none", "undefined")
  /\ wire = [s \in Sessions |-> <<>>]
  /\ relays = <<>>
  /\ call = NoCall
  /\ \E k \in 0..MaxSlots :
       db = [user |-> UserWith(k), chars |-> {CharacterOf(i) : i \in 1..k},
             tx |-> [p \in Calls |-> Idle]]

\* The controller and the service up to `await mongoose.startSession()`.
Request(p, req) ==
  /\ db.tx[p].pc = "idle"
  /\ LET message == EntryError(req)
     IN IF message # ""
          THEN /\ call' = Response(BearerToken(req.authorization) \notin {"null", ""},
                                normName(req) = <<>> \/ normClass(req) = <<>>, message)
               /\ db' = db
          ELSE /\ db' = [db EXCEPT !.tx[p] =
                           [Idle EXCEPT !.pc = "find",
                                        !.userId = jwtVerify(BearerToken(req.authorization)),
                                        !.name = normName(req),
                                        !.class = normClass(req)]]
               /\ call' = call
  /\ UNCHANGED hubVars

\* findIndex(s => !s.characterId): 0 stands for -1.
FreeIndex(characters) ==
  IF \E i \in DOMAIN characters : characters[i].characterId = NoCharacter
    THEN CHOOSE i \in DOMAIN characters :
           /\ characters[i].characterId = NoCharacter
           /\ \A j \in 1..(i - 1) : characters[j].characterId # NoCharacter
    ELSE 0

Throw(p, message) == [db EXCEPT !.tx[p].pc = "abort", !.tx[p].err = message]

\* User.findById(userId).session(session) and the search of a free slot: the
\* first read of the transaction, which fixes its snapshot.
FindUser(p) ==
  /\ db.tx[p].pc = "find"
  /\ db' =
       IF db.tx[p].userId # TheUser THEN Throw(p, AccountNotFound)
       ELSE IF FreeIndex(db.user.characters) = 0 THEN Throw(p, TooManyCharacters)
       ELSE [db EXCEPT !.tx[p].pc = "exists",
                       !.tx[p].snapUser = db.user,
                       !.tx[p].snapChars = db.chars,
                       !.tx[p].freeIndex = FreeIndex(db.user.characters)]
  /\ UNCHANGED <<hubVars, call>>

\* Character.exists({ userId, name }).session(session), read in the snapshot.
Exists(p) ==
  /\ db.tx[p].pc = "exists"
  /\ db' =
       IF \E c \in db.tx[p].snapChars :
            c.userId = db.tx[p].userId /\ c.name = db.tx[p].name
         THEN Throw(p, NameExists)
         ELSE [db EXCEPT !.tx[p].pc = "create"]
  /\ UNCHANGED <<hubVars, call>>

\* The ids in use: ObjectIds are never reused.
UsedIds == {c.id : c \in db.chars} \cup {db.tx[q].char.id : q \in Calls}
NewId == CHOOSE n \in 1..(Cardinality(UsedIds) + 1) : n \notin UsedIds

\* Character.create([newCharacter], { session }): the insert is held by the
\* transaction, or the driver rejects it (a duplicate key, code 11000, or a
\* failed validation).
Create(p, outcome) ==
  /\ db.tx[p].pc = "create"
  /\ db' =
       CASE outcome = "inserted" ->
              [db EXCEPT !.tx[p].pc = "save",
                         !.tx[p].char = [id |-> NewId, userId |-> db.tx[p].userId,
                                         name |-> db.tx[p].name, class |-> db.tx[p].class]]
         [] outcome = "duplicate" -> Throw(p, NameExists)
         [] OTHER -> Throw(p, OtherFailure)
  /\ UNCHANGED <<hubVars, call>>

\* Mutant of WriteConflict: the database takes every write.
WriteConflictNever(p) == FALSE

\* A write of a transaction to the user document fails when the document was
\* written after the snapshot of the transaction, or is written by another
\* open transaction.
WriteConflict(p) ==
  \/ db.user # db.tx[p].snapUser
  \/ \E q \in Calls \ {p} : db.tx[q].wrote

\* The assignments to user.characters[freeIndex] and user.save({ session }),
\* which runs the pre('validate') hook before it writes.
Save(p) ==
  /\ db.tx[p].pc = "save"
  /\ LET i == db.tx[p].freeIndex
         char == db.tx[p].char
         doc == preValidate([db.tx[p].snapUser EXCEPT
                               !.characters[i].characterId = char.id,
                               !.characters[i].name_snapshot = Str(char.name)])
     IN db' =
          IF WriteConflict(p) THEN Throw(p, WriteConflictMessage)
          ELSE [db EXCEPT !.tx[p].pc = "commit", !.tx[p].doc = doc, !.tx[p].wrote = TRUE]
  /\ UNCHANGED <<hubVars, call>>

\* session.commitTransaction(): the writes of the transaction become the state
\* of the database, and the controller answers 200.
Commit(p) ==
  /\ db.tx[p].pc = "commit"
  /\ db' = [db EXCEPT !.user = db.tx[p].doc,
                      !.chars = db.chars \cup {db.tx[p].char},
                      !.tx[p] = Idle]
  /\ call' = Response(TRUE, FALSE, "")
  /\ UNCHANGED hubVars

\* The catch block: session.abortTransaction() drops the writes of the
\* transaction, and the controller maps the message of the error.
Abort(p) ==
  /\ db.tx[p].pc = "abort"
  /\ db' = [db EXCEPT !.tx[p] = Idle]
  /\ call' = Response(TRUE, FALSE, db.tx[p].err)
  /\ UNCHANGED hubVars

NextPlayers ==
  \/ \E p \in Calls, req \in Requests : Request(p, req)
  \/ \E p \in Calls : FindUser(p)
  \/ \E p \in Calls : Exists(p)
  \/ \E p \in Calls, outcome \in {"inserted", "duplicate", "other"} : Create(p, outcome)
  \/ \E p \in Calls : Save(p)
  \/ \E p \in Calls : Commit(p)
  \/ \E p \in Calls : Abort(p)

SpecPlayers == InitPlayers /\ [][NextPlayers]_vars

\* The slots of a user document that hold a character.
FilledSlots(doc) ==
  {i \in DOMAIN doc.characters : doc.characters[i].characterId # NoCharacter}

\* The step in which call p of createPlayer succeeds.
SucceedsIn(p) == db.tx[p].pc = "commit" /\ db'.tx[p].pc = "idle"

\* C28: in every interleaving of createPlayer calls for one user, the user has
\* at most five characters; a call that succeeds puts its new character into
\* exactly one slot that was empty and changes nothing else; every other step,
\* and so every call that fails, leaves the slots and the characters
\* collection as they were.
C28_SlotsFilledOneByOne ==
  [][ /\ Cardinality(db'.chars) <= MaxSlots
      /\ Cardinality(FilledSlots(db'.user)) = Cardinality(db'.chars)
      /\ \A p \in Calls :
           SucceedsIn(p) =>
             LET char == db.tx[p].char
             IN /\ char \notin db.chars
                /\ db'.chars = db.chars \cup {char}
                /\ \E i \in DOMAIN db.user.characters :
                     /\ db.user.characters[i].characterId = NoCharacter
                     /\ db'.user.characters[i].characterId = char.id
                     /\ db'.user.characters[i].name_snapshot = Str(char.name)
                     /\ \A j \in DOMAIN db.user.characters \ {i} :
                          db'.user.characters[j] = db.user.characters[j]
                /\ db'.user.max_characters = db.user.max_characters
      /\ (\A p \in Calls : ~SucceedsIn(p)) =>
           /\ db'.user = db.user
           /\ db'.chars = db.chars ]_vars

\* Two calls ran at the same time on a user with one free slot: one of them
\* filled it and the other has just failed on the write conflict.
C28_Witness ==
  /\ call.fn = "createPlayer"
  /\ call.message = WriteConflictMessage
  /\ Cardinality(db.chars) = MaxSlots
  /\ FilledSlots(db.user) = 1..MaxSlots
  /\ \E c \in db.chars : c.name = <<65>>

\* C29: a create-player request that carries a token but whose name or class
\* is missing or blank is answered with status 400.
C29_BlankFieldsAnswered400 ==
  (call.fn = "createPlayer" /\ call.token /\ call.blank) => call.status = 400

(* ---------------------------------------------------------------------- *)
(* The pre('validate') hook on its own                                     *)
(* ---------------------------------------------------------------------- *)

\* Arrays of up to five slots, numbered from 1, each empty or holding the
\* character of its number.
SlotArrays ==
  UNION { [1..n -> {"empty", "held"}] : n \in 0..MaxSlots }

SlotsOf(array) ==
  [i \in DOMAIN array |->
     IF array[i] = "held"
       THEN [slot |-> i, characterId |-> i, name_snapshot |-> Str(<<80, 48 + i>>)]
       ELSE EmptySlot(i)]

\* The documents the schema admits: max_characters from 1 to 5, and any
\* array of slots, or no array.
UserDocs ==
  [max_characters : 1..MaxSlots,
   characters : {SlotsOf(array) : array \in SlotArrays} \cup {NotArray}]

InitValidate ==
  /\ GAME_SERVER_TOKEN = SecretAB
  /\ connectedServers = [n \in ServerNames |-> NoSession]
  /\ context = [s \in Sessions |-> NewContext]
  /\ readyState = [s \in Sessions |-> "NONE"]
  /\ io = <<>>
  /\ lastOp = Op("init", NoSession, "none", NoSession, "none", "undefined")
  /\ wire = [s \in Sessions |-> <<>>]
  /\ relays = <<>>
  /\ call = NoCall
  /\ \E doc \in UserDocs : db = [user |-> doc, chars |-> {}, tx |-> [p \in Calls |-> Idle]]

\* One validation of the user document (user.validate(), or the validation
\* that user.save() starts with).
Validate ==
  /\ db' = [db EXCEPT !.user = preValidate(db.user)]
  /\ call' = [fn |-> "validate", before |-> db.user]
  /\ UNCHANGED hubVars

NextValidate == Validate

SpecValidate == InitValidate /\ [][NextValidate]_vars

\* C30: after the hook has run, the document has exactly max_characters
\* slots, and every slot that held a character before the validation holds
\* the same character after it.
C30_SlotsMatchMaxAndAreKept ==
  call.fn = "validate" =>
    /\ IsArray(db.user.characters)
    /\ Len(db.user.characters) = db.user.max_characters
    /\ IsArray(call.before.characters) =>
         \A i \in FilledSlots(call.before) :
           \E j \in DOMAIN db.user.characters :
             /\ db.user.characters[j].slot = call.before.characters[i].slot
             /\ db.user.characters[j].characterId = call.before.characters[i].characterId

====
